---- MODULE Spec2Model ----
(***************************************************************************)
(* Model of the ezra chat server: the persistence store (Database), the    *)
(* in-memory Conversation, the model gateway (Model.chat), the turn driver *)
(* (Server.think) and the per-connection handler (Server.handle_client /   *)
(* Server.on_client).                                                      *)
(*                                                                         *)
(* Text is a sequence of characters, so that SQL's || and Python's join    *)
(* are sequence concatenation.  An action is one stretch of a connection's *)
(* task between two suspension points (an await on the transport, on the   *)
(* backend or on the tool executor).                                       *)
(***************************************************************************)
EXTENDS Integers, Sequences, FiniteSets, TLC

VARIABLES
    convos,   \* table convos: convos[id] is the system prompt of conversation id
    chat,     \* table chat: chat[id] is the row with primary key id
    now,      \* what inow() returns
    pc,       \* per connection: where its task is suspended
    lost,     \* per connection: the transport has lost its peer
    convo,    \* per connection: handle_client's local `convo`
    req,      \* per connection: the record stream.read() returned last
    out,      \* per connection: records written while handling req
    turn,     \* per connection: locals of Conversation.stream / Server.think
    api,      \* per handle: last direct call on the Conversation interface
    client    \* the bundled client: its two tasks, EzraClient.start, the transport

vars == <<convos, chat, now, pc, lost, convo, req, out, turn, api, client>>

----------------------------------------------------------------------------
(* Program constants *)

MSG_LIMIT == 30

SYSTEM == <<"S">>

\* what Server.use_tool returns
TOOL_RESULT == "Tools to be implemented."

\* Python None / SQL NULL where a value of another type may also stand
None == "None"

----------------------------------------------------------------------------
(* Bounds of the model *)

Conns == {"c1", "c2"}

MaxRows == 4        \* rows of table chat (one-connection specification)
SharedRows == 4     \* rows of table chat (two-connection specification)
MaxConvos == 2      \* rows of table convos
MaxOutputs == 2     \* outputs the gateway yields in one turn
MaxClock == 1       \* values of inow()
WindowRows == 32    \* rows of table chat (many-turn specification)
ApiRows == 31       \* rows of table chat (Conversation-interface specification)
BacklogRows == 29   \* rows already stored when the interface specification starts

\* message texts a client sends, chunk texts the backend sends
UserTexts == {<<>>, <<"h">>}
ChunkTexts == {<<"a">>, <<"b">>}
Systems == {<<"S">>, <<"T">>}
TieOrders == {"asc", "desc"}

----------------------------------------------------------------------------
(* Sequence helpers *)

RECURSIVE Join(_)
\* ''.join(parts)
Join(parts) == IF parts = <<>> THEN <<>> ELSE Head(parts) \o Join(Tail(parts))

RECURSIVE Reverse(_)
Reverse(s) == IF s = <<>> THEN <<>> ELSE Reverse(Tail(s)) \o <<Head(s)>>

Take(s, n) == IF Len(s) <= n THEN s ELSE SubSeq(s, 1, n)

Last(s) == s[Len(s)]

Max(S) == CHOOSE x \in S : \A y \in S : y <= x

----------------------------------------------------------------------------
(* Database *)

\* A ChatRow.  tool_calls is NULL (tc_null) until the first annotation; after
\* that the column holds a JSONB array, whose elements are kept in tool_calls.
ChatRow(created_at, convo_id, role, content) ==
    [created_at |-> created_at, convo_id |-> convo_id, role |-> role,
     content |-> content, tc_null |-> TRUE, tool_calls |-> <<>>]

get_convo(cs, id) == IF id \in DOMAIN cs THEN id ELSE 0

start_convo(cs, system) == Append(cs, system)

add_message(ch, t, cid, role, content) == Append(ch, ChatRow(t, cid, role, content))

\* variant: SET content = ?
append_message_overwrite(ch, id, chunk) ==
    [ch EXCEPT ![id].content = chunk]

\* UPDATE chat SET content = content || ? WHERE id = ?
append_message(ch, id, chunk) ==
    [ch EXCEPT ![id].content = @ \o chunk]

\* json.dumps({"name": name, "args": args, "result": result}): the text is
\* kept as the record it spells
dumps_toolcall(name, args, result) == [name |-> name, args |-> args, result |-> result]

\* variant: SET tool_calls = jsonb_array(?)
append_message_toolcall_replace(ch, id, name, args, result) ==
    [ch EXCEPT ![id].tc_null = FALSE,
               ![id].tool_calls = <<[string |-> dumps_toolcall(name, args, result)]>>]

\* jsonb_insert(IFNULL(tool_calls, "[]"), "$[#]", ?): the parameter is bound
\* as TEXT, so the element appended is a JSON string holding that text
append_message_toolcall(ch, id, name, args, result) ==
    [ch EXCEPT ![id].tc_null = FALSE,
               ![id].tool_calls = Append(@, [string |-> dumps_toolcall(name, args, result)])]

\* ids of the rows of conversation cid, in primary-key order
RowsOf(ch, cid) == SelectSeq([i \in 1..Len(ch) |-> i], LAMBDA i : ch[i].convo_id = cid)

RECURSIVE OrderByCreatedDesc(_, _, _)
\* ORDER BY created_at DESC over the ids `ids` (in primary-key order).  SQL
\* leaves the order of rows with equal created_at open: `tie` picks
\* primary-key order ("asc", what SQLite's scan gives) or its reverse.
OrderByCreatedDesc(ch, ids, tie) ==
    IF ids = <<>> THEN <<>>
    ELSE LET t == Max({ch[ids[k]].created_at : k \in 1..Len(ids)})
             group == SelectSeq(ids, LAMBDA i : ch[i].created_at = t)
             rest == SelectSeq(ids, LAMBDA i : ch[i].created_at # t)
         IN  (IF tie = "asc" THEN group ELSE Reverse(group))
                 \o OrderByCreatedDesc(ch, rest, tie)

\* SELECT ... ORDER BY created_at DESC LIMIT limit, then reversed(m): row ids
list_chat(ch, cid, limit, tie) ==
    Reverse(Take(OrderByCreatedDesc(ch, RowsOf(ch, cid), tie), limit))

----------------------------------------------------------------------------
(* Messages *)

UserMessage(content) == [role |-> "user", content |-> content, tool_calls |-> <<>>]

SelfMessage(content, tool_calls) ==
    [role |-> "self", content |-> content, tool_calls |-> tool_calls]

Outcome(name, args, result) == [name |-> name, args |-> args, result |-> result]

Chunk(text) == [kind |-> "Chunk", text |-> text, name |-> None, args |-> None]

ToolCall(name, args) == [kind |-> "ToolCall", text |-> <<>>, name |-> name, args |-> args]

\* ChatRow.tool_calls: json.loads(self._tool_calls.decode('utf8')).  A NULL
\* column is None and has no decode; a JSONB blob is not JSON text.  Both raise.
row_tool_calls(row) ==
    IF row.tc_null THEN [ok |-> FALSE, exc |-> "AttributeError", calls |-> <<>>]
    ELSE [ok |-> FALSE, exc |-> "ValueError", calls |-> <<>>]

\* row.content or '\0'
content_or_nul(content) == IF content = <<>> THEN <<"NUL">> ELSE content

RECURSIVE convo_to_messages(_, _)
\* _convo_to_messages over the row ids `ids`: [ok, exc, messages]
convo_to_messages(ch, ids) ==
    IF ids = <<>> THEN [ok |-> TRUE, exc |-> None, messages |-> <<>>]
    ELSE LET row == ch[Head(ids)]
             content == content_or_nul(row.content)
             tcs == row_tool_calls(row)
             rest == convo_to_messages(ch, Tail(ids))
         IN  IF row.role = "user"
             THEN [rest EXCEPT !.messages = <<UserMessage(content)>> \o @]
             ELSE IF row.role # "self"
             THEN [ok |-> FALSE, exc |-> "AssertionError", messages |-> <<>>]
             ELSE IF ~tcs.ok
             THEN [ok |-> FALSE, exc |-> tcs.exc, messages |-> <<>>]
             ELSE [rest EXCEPT !.messages =
                      <<SelfMessage(content,
                          [k \in 1..Len(tcs.calls) |->
                              Outcome(tcs.calls[k].name, tcs.calls[k].args, None)])>> \o @]

\* _messages_to_json: one record per message
messages_to_json(messages) ==
    [k \in 1..Len(messages) |->
        IF messages[k].role = "user"
        THEN [role |-> "user", content |-> messages[k].content]
        ELSE IF messages[k].tool_calls = <<>>
        THEN [role |-> "assistant", content |-> messages[k].content]
        ELSE [role |-> "assistant", content |-> messages[k].content,
              tool_calls |-> messages[k].tool_calls]]

----------------------------------------------------------------------------
(* Conversation *)

\* handle_client's `convo = None`
NoConvo == [id |-> 0, system |-> <<>>, messages |-> <<>>]

\* Conversation.__init__: [ok, exc, convo]
Conversation(cs, ch, id, tie) ==
    IF get_convo(cs, id) = 0
    THEN [ok |-> FALSE, exc |-> "ValueError", convo |-> NoConvo]
    ELSE LET m == convo_to_messages(ch, list_chat(ch, id, MSG_LIMIT, tie))
         IN  IF m.ok
             THEN [ok |-> TRUE, exc |-> None,
                   convo |-> [id |-> id, system |-> cs[id], messages |-> m.messages]]
             ELSE [ok |-> FALSE, exc |-> m.exc, convo |-> NoConvo]

\* Conversation.push: the row is added first, then the role is matched.
\* [ok, chat, convo]
push(ch, cv, t, role, content) ==
    LET ch2 == add_message(ch, t, cv.id, role, content)
    IN  IF role = "user"
        THEN [ok |-> TRUE, chat |-> ch2,
              convo |-> [cv EXCEPT !.messages = Append(@, UserMessage(content))]]
        ELSE IF role = "self"
        THEN [ok |-> TRUE, chat |-> ch2,
              convo |-> [cv EXCEPT !.messages = Append(@, SelfMessage(content, <<>>))]]
        ELSE [ok |-> FALSE, chat |-> ch2, convo |-> cv]

----------------------------------------------------------------------------
(* Model gateway *)

\* One element of the backend's response stream, as Model.chat reads it:
\* m.get('message'), msg.get('content'), msg.get('tool_calls').
\* has_content / has_calls: the key is present and its value is not None.
BackendMsg(has_message, has_content, content, has_calls, tool_calls) ==
    [has_message |-> has_message, has_content |-> has_content, content |-> content,
     has_calls |-> has_calls, tool_calls |-> tool_calls]

Call(name) == [name |-> name, args |-> "{}"]

BackendMsgs ==
    {BackendMsg(FALSE, FALSE, <<>>, FALSE, <<>>), BackendMsg(TRUE, FALSE, <<>>, FALSE, <<>>)}
    \cup {BackendMsg(TRUE, TRUE, t, FALSE, <<>>) : t \in ChunkTexts}
    \cup {BackendMsg(TRUE, TRUE, <<>>, TRUE, <<Call("t1")>>)}
    \cup {BackendMsg(TRUE, FALSE, <<>>, TRUE, cs) :
            cs \in {<<>>, <<Call("t1")>>, <<Call("t1"), Call("t2")>>}}

\* the tool calls backend element m carries
requested(m) == IF m.has_message /\ m.has_calls THEN m.tool_calls ELSE <<>>

\* The body of Model.chat's loop for one backend element: [ok, outputs]
chat_outputs(m) ==
    IF ~m.has_message THEN [ok |-> FALSE, outputs |-> <<>>]
    ELSE IF m.has_content THEN [ok |-> TRUE, outputs |-> <<Chunk(m.content)>>]
    ELSE IF m.has_calls
    THEN [ok |-> TRUE,
          outputs |-> [k \in 1..Len(m.tool_calls) |->
                          ToolCall(m.tool_calls[k].name, m.tool_calls[k].args)]]
    ELSE [ok |-> FALSE, outputs |-> <<>>]

----------------------------------------------------------------------------
(* Transport *)

\* A line of the request stream.  json_ok: the line parses as JSON;
\* has_convo / has_message: the record has the key; is_str: the message is a
\* string (sqlite3 cannot bind a JSON array or object as a parameter).
Request(json_ok, type, has_convo, cid, has_message, is_str, message) ==
    [json_ok |-> json_ok, type |-> type, has_convo |-> has_convo, convo |-> cid,
     has_message |-> has_message, is_str |-> is_str, message |-> message]

NoRequest == Request(TRUE, None, FALSE, 0, FALSE, FALSE, <<>>)

Requests ==
    {Request(FALSE, None, FALSE, 0, FALSE, FALSE, <<>>)}
    \cup {Request(TRUE, ty, FALSE, 0, FALSE, FALSE, <<>>) :
            ty \in {None, "close", "connect", "text"}}
    \cup {Request(TRUE, "connect", TRUE, cid, FALSE, FALSE, <<>>) : cid \in 0..MaxConvos}
    \cup {Request(TRUE, "text", FALSE, 0, TRUE, TRUE, m) : m \in UserTexts}
    \cup {Request(TRUE, "text", FALSE, 0, TRUE, FALSE, <<>>)}

\* A line typed at the client's prompt: a command with its arguments, or text
ClientLine(cmd, args, text) == [cmd |-> cmd, args |-> args, text |-> text]

ClientLines ==
    {ClientLine(cmd, <<>>, <<>>) : cmd \in {"close", "replay", "list"}}
    \cup {ClientLine("connect", <<1>>, <<>>), ClientLine("text", <<>>, <<"h">>)}

\* EzraClient.input: the record written for a line, as the server decodes it.
\* The client writes {"cmd": ...} and {"message": ...}: no record has a
\* "type" key, and "cmd" is a key the server does not look at.
client_input(line) ==
    IF line.cmd = "connect" THEN Request(TRUE, None, TRUE, line.args[1], FALSE, FALSE, <<>>)
    ELSE IF line.cmd = "text" THEN Request(TRUE, None, FALSE, 0, TRUE, TRUE, line.text)
    ELSE Request(TRUE, None, FALSE, 0, FALSE, FALSE, <<>>)

ClientRequests == {client_input(line) : line \in ClientLines}

\* the arm of handle_client's match statement that takes `data`
match_request(data) ==
    IF data.type = "close" THEN "close"
    ELSE IF data.type = "connect" /\ data.has_convo THEN "connect"
    ELSE IF data.type = "text" /\ data.has_message THEN "text"
    ELSE "other"

Error(message) == [type |-> "error", message |-> message]

Uncaught == [type |-> "uncaught"]

\* what handle_client writes for an update of Server.think
update_to_json(u) ==
    IF u.kind = "Chunk" THEN [type |-> "chunk", content |-> u.text]
    ELSE IF u.kind = "ToolCall" THEN [type |-> "tool", name |-> u.name, args |-> u.args]
    ELSE [type |-> "result", result |-> u.result]

\* variant: every exception is dropped like a ConnectionResetError
on_client_except_silent(o, exc, is_lost) == o

\* Server.on_client's except clauses: the records written once `exc` has
\* left handle_client, given the records `o` written before.
on_client_except(o, exc, is_lost) ==
    IF exc = "ConnectionResetError" \/ is_lost THEN o ELSE Append(o, Uncaught)

----------------------------------------------------------------------------
(* The bundled client: EzraClient.start runs EzraClient.input and
   EzraClient.output as tasks of a TaskGroup on one event loop.  `ready` is
   the loop's queue of tasks to step, in order; `cancel` holds the tasks a
   CancelledError is going to be thrown into at their next step. *)

Tasks == {"input", "output"}

\* a task that has returned, raised, or ended cancelled
Finished(st) == st \in {"returned", "raised", "cancelled"}

\* EzraClient.start is entered: both tasks wait (prompt_async, stream.read),
\* start waits in asyncio.wait
NoClient ==
    [input |-> "prompt", output |-> "read", main |-> "wait", after |-> "prompt",
     cancel |-> {}, ready |-> <<>>, aborting |-> FALSE, transport |-> "open", sent |-> 0]

InReady(cl, t) == \E k \in 1..Len(cl.ready) : cl.ready[k] = t

\* loop.call_soon of the step of task t
schedule(cl, t) == IF InReady(cl, t) THEN cl ELSE [cl EXCEPT !.ready = Append(@, t)]

\* Task.cancel(): nothing for a finished task; otherwise the task is woken
\* with a CancelledError
cancel_task(cl, t) ==
    IF Finished(cl[t]) THEN cl ELSE schedule([cl EXCEPT !.cancel = @ \cup {t}], t)

\* the other of the two tasks
Other(t) == IF t = "input" THEN "output" ELSE "input"

\* The done callbacks of task t, in the order they were added:
\* TaskGroup._on_task_done (a task that raised aborts the group: the other
\* task and then the parent are cancelled), then the callback of
\* asyncio.wait / asyncio.gather / TaskGroup.__aexit__ that wakes start.
task_done(cl, t) ==
    LET a == IF cl[t] = "raised" /\ ~cl.aborting /\ cl.main # "done"
             THEN cancel_task(cancel_task([cl EXCEPT !.aborting = TRUE], Other(t)), "main")
             ELSE cl
    IN  IF a.main = "wait" THEN schedule(a, "main")
        ELSE IF a.main \in {"gather", "join"} /\ Finished(a[Other(t)]) THEN schedule(a, "main")
        ELSE a

\* JSONLStream.close after its drain: writer.close(); then
\* TaskGroup.__aexit__ waits for the tasks that are left
close_transport(cl) ==
    [cl EXCEPT !.transport = "closed",
               !.main = IF Finished(cl.input) /\ Finished(cl.output) THEN "done" ELSE "join"]

\* JSONLStream.__aexit__: `await self.writer.drain()` may suspend
exit_stream(cl, suspends) ==
    IF suspends THEN [cl EXCEPT !.main = "drain"] ELSE close_transport(cl)

----------------------------------------------------------------------------
(* Turn state: the locals of Conversation.stream and Server.think, and a
   record of what the backend asked for (asked: the tool calls its elements
   carried), what the gateway yielded and what think yielded in the turn *)

NoTurn ==
    [msg |-> 0, content |-> <<>>, calls |-> <<>>, queue |-> <<>>, pending |-> Chunk(<<>>),
     history |-> <<>>, produced |-> <<>>, updates |-> <<>>, state |-> "none",
     exc |-> None, asked |-> <<>>]

\* a call on the Conversation interface: what was called and what it saw.
\* seen: rows of the conversation when it was called; rows: the row ids
\* list_chat returned; nrows, nmsgs: Len(chat) and Len(messages) before it.
ApiCall(op, ok, id, seen, rows, nrows, nmsgs) ==
    [op |-> op, ok |-> ok, id |-> id, seen |-> seen, rows |-> rows,
     nrows |-> nrows, nmsgs |-> nmsgs]

NoCall == ApiCall("none", TRUE, 0, 0, <<>>, 0, 0)

Init ==
    /\ convos = <<>>
    /\ chat = <<>>
    /\ now = 0
    /\ pc = [c \in Conns |-> "read"]
    /\ lost = [c \in Conns |-> FALSE]
    /\ convo = [c \in Conns |-> NoConvo]
    /\ req = [c \in Conns |-> NoRequest]
    /\ out = [c \in Conns |-> <<>>]
    /\ turn = [c \in Conns |-> NoTurn]
    /\ api = [c \in Conns |-> NoCall]
    /\ client = NoClient

\* inow() moves on
Tick ==
    /\ now < MaxClock
    /\ now' = now + 1
    /\ UNCHANGED <<convos, chat, pc, lost, convo, req, out, turn, api, client>>

\* the peer goes away: reads see end of file, drain raises ConnectionResetError
PeerLost(c) ==
    /\ pc[c] \notin {"closing", "closed"}
    /\ ~lost[c]
    /\ lost' = [lost EXCEPT ![c] = TRUE]
    /\ UNCHANGED <<convos, chat, now, pc, convo, req, out, turn, api, client>>

\* `while not stream.eof()` ends, or stream.read() raises ConnectionResetError
ReadEof(c) ==
    /\ pc[c] = "read"
    /\ lost[c]
    /\ pc' = [pc EXCEPT ![c] = "closing"]
    /\ UNCHANGED <<convos, chat, now, lost, convo, req, out, turn, api, client>>

\* stream.read(): json.loads raises on a line that is not JSON
Read(c, data) ==
    /\ pc[c] = "read"
    /\ ~lost[c]
    /\ req' = [req EXCEPT ![c] = data]
    /\ IF data.json_ok
       THEN /\ pc' = [pc EXCEPT ![c] = "dispatch"]
            /\ out' = [out EXCEPT ![c] = <<>>]
       ELSE /\ pc' = [pc EXCEPT ![c] = "closing"]
            /\ out' = [out EXCEPT ![c] = on_client_except(<<>>, "JSONDecodeError", lost[c])]
    /\ UNCHANGED <<convos, chat, now, lost, convo, turn, api, client>>

\* variant: the close request is acknowledged with a record
HandleClose_ack(c) ==
    /\ pc[c] = "dispatch"
    /\ match_request(req[c]) = "close"
    /\ pc' = [pc EXCEPT ![c] = "closing"]
    /\ out' = [out EXCEPT ![c] = Append(@, [type |-> "close"])]
    /\ UNCHANGED <<convos, chat, now, lost, convo, req, turn, api, client>>

\* case {"type": "close"}: break
HandleClose(c) ==
    /\ pc[c] = "dispatch"
    /\ match_request(req[c]) = "close"
    /\ pc' = [pc EXCEPT ![c] = "closing"]
    /\ UNCHANGED <<convos, chat, now, lost, convo, req, out, turn, api, client>>

\* case _: error "Unknown request type"
HandleOther(c) ==
    /\ pc[c] = "dispatch"
    /\ match_request(req[c]) = "other"
    /\ IF lost[c]
       THEN pc' = [pc EXCEPT ![c] = "closing"] /\ out' = out
       ELSE /\ pc' = [pc EXCEPT ![c] = "read"]
            /\ out' = [out EXCEPT ![c] = Append(@, Error("Unknown request type"))]
    /\ UNCHANGED <<convos, chat, now, lost, convo, req, turn, api, client>>

\* variant: an unknown id also resets `convo`
HandleConnect_unbind(c, tie) ==
    /\ pc[c] = "dispatch"
    /\ match_request(req[c]) = "connect"
    /\ LET cid == req[c].convo
           r == Conversation(convos, chat, cid, tie)
       IN  IF get_convo(convos, cid) # 0
           THEN IF r.ok
                THEN /\ convo' = [convo EXCEPT ![c] = r.convo]
                     /\ IF lost[c]
                        THEN pc' = [pc EXCEPT ![c] = "closing"] /\ out' = out
                        ELSE /\ pc' = [pc EXCEPT ![c] = "read"]
                             /\ out' = [out EXCEPT ![c] = Append(@,
                                   [type |-> "replay", system |-> convos[cid],
                                    messages |-> messages_to_json(r.convo.messages)])]
                ELSE /\ convo' = convo
                     /\ pc' = [pc EXCEPT ![c] = "closing"]
                     /\ out' = [out EXCEPT ![c] = on_client_except(@, r.exc, lost[c])]
           ELSE /\ convo' = [convo EXCEPT ![c] = NoConvo]
                /\ IF lost[c]
                   THEN pc' = [pc EXCEPT ![c] = "closing"] /\ out' = out
                   ELSE /\ pc' = [pc EXCEPT ![c] = "read"]
                        /\ out' = [out EXCEPT ![c] = Append(@, Error("Unknown conversation"))]
    /\ UNCHANGED <<convos, chat, now, lost, req, turn, api, client>>

\* case {"type": "connect", "convo": cid}
HandleConnect(c, tie) ==
    /\ pc[c] = "dispatch"
    /\ match_request(req[c]) = "connect"
    /\ LET cid == req[c].convo
           r == Conversation(convos, chat, cid, tie)
       IN  IF get_convo(convos, cid) # 0
           THEN IF r.ok
                THEN /\ convo' = [convo EXCEPT ![c] = r.convo]
                     /\ IF lost[c]
                        THEN pc' = [pc EXCEPT ![c] = "closing"] /\ out' = out
                        ELSE /\ pc' = [pc EXCEPT ![c] = "read"]
                             /\ out' = [out EXCEPT ![c] = Append(@,
                                   [type |-> "replay", system |-> convos[cid],
                                    messages |-> messages_to_json(r.convo.messages)])]
                ELSE /\ convo' = convo
                     /\ pc' = [pc EXCEPT ![c] = "closing"]
                     /\ out' = [out EXCEPT ![c] = on_client_except(@, r.exc, lost[c])]
           ELSE /\ convo' = convo
                /\ IF lost[c]
                   THEN pc' = [pc EXCEPT ![c] = "closing"] /\ out' = out
                   ELSE /\ pc' = [pc EXCEPT ![c] = "read"]
                        /\ out' = [out EXCEPT ![c] = Append(@, Error("Unknown conversation"))]
    /\ UNCHANGED <<convos, chat, now, lost, req, turn, api, client>>

\* variant: a Chunk is yielded without being appended to the row
stream_output_unstored(t, ch, o) ==
    LET t2 == [t EXCEPT !.pending = o, !.produced = Append(@, o), !.updates = Append(@, o)]
    IN  IF o.kind = "Chunk"
        THEN [turn |-> [t2 EXCEPT !.content = Append(@, o.text)], chat |-> ch]
        ELSE [turn |-> t2, chat |-> ch]

\* Conversation.stream, from receiving output `o` of the gateway to the yield
\* that hands it on: a Chunk is accumulated and appended to the row first.
\* Server.think yields it on unchanged.  [turn, chat]
stream_output(t, ch, o) ==
    LET t2 == [t EXCEPT !.pending = o, !.produced = Append(@, o), !.updates = Append(@, o)]
    IN  IF o.kind = "Chunk"
        THEN [turn |-> [t2 EXCEPT !.content = Append(@, o.text)],
              chat |-> append_message(ch, t.msg, o.text)]
        ELSE [turn |-> t2, chat |-> ch]

\* Conversation.stream after its loop: the SelfMessage appended to messages
stream_finish(cv, t) ==
    [cv EXCEPT !.messages = Append(@, SelfMessage(Join(t.content), t.calls))]

\* variant: every text request starts a conversation
HandleText_fresh(c, d) ==
    /\ pc[c] = "dispatch"
    /\ match_request(req[c]) = "text"
    /\ now + d <= MaxClock
    /\ LET cs2 == start_convo(convos, SYSTEM)
           cv == Conversation(cs2, chat, Len(cs2), "asc").convo
           p == push(chat, cv, now, "user", req[c].message)
           ch2 == add_message(p.chat, now + d, cv.id, "self", <<>>)
       IN  /\ convos' = cs2
           /\ IF req[c].is_str
              THEN /\ chat' = ch2
                   /\ now' = now + d
                   /\ convo' = [convo EXCEPT ![c] = p.convo]
                   /\ turn' = [turn EXCEPT ![c] =
                         [NoTurn EXCEPT !.msg = Len(ch2), !.history = p.convo.messages,
                                        !.state = "running"]]
                   /\ pc' = [pc EXCEPT ![c] = "gen"]
                   /\ out' = out
              ELSE \* add_message raises: the parameter cannot be bound
                   /\ d = 0
                   /\ chat' = chat
                   /\ now' = now
                   /\ convo' = [convo EXCEPT ![c] = cv]
                   /\ turn' = turn
                   /\ pc' = [pc EXCEPT ![c] = "closing"]
                   /\ out' = [out EXCEPT ![c] = on_client_except(@, "InterfaceError", lost[c])]
    /\ UNCHANGED <<lost, req, api, client>>

\* variant: the turn's row is inserted twice
HandleText_twice(c, d) ==
    /\ pc[c] = "dispatch"
    /\ match_request(req[c]) = "text"
    /\ now + d <= MaxClock
    /\ LET cs2 == IF convo[c].id = 0 THEN start_convo(convos, SYSTEM) ELSE convos
           cv == IF convo[c].id = 0
                 THEN Conversation(cs2, chat, Len(cs2), "asc").convo
                 ELSE convo[c]
           p == push(chat, cv, now, "user", req[c].message)
           ch2 == add_message(add_message(p.chat, now + d, cv.id, "self", <<>>),
                              now + d, cv.id, "self", <<>>)
       IN  /\ convos' = cs2
           /\ IF req[c].is_str
              THEN /\ chat' = ch2
                   /\ now' = now + d
                   /\ convo' = [convo EXCEPT ![c] = p.convo]
                   /\ turn' = [turn EXCEPT ![c] =
                         [NoTurn EXCEPT !.msg = Len(ch2), !.history = p.convo.messages,
                                        !.state = "running"]]
                   /\ pc' = [pc EXCEPT ![c] = "gen"]
                   /\ out' = out
              ELSE \* add_message raises: the parameter cannot be bound
                   /\ d = 0
                   /\ chat' = chat
                   /\ now' = now
                   /\ convo' = [convo EXCEPT ![c] = cv]
                   /\ turn' = turn
                   /\ pc' = [pc EXCEPT ![c] = "closing"]
                   /\ out' = [out EXCEPT ![c] = on_client_except(@, "InterfaceError", lost[c])]
    /\ UNCHANGED <<lost, req, api, client>>

\* case {"type": "text", "message": message}, up to the first await on the
\* backend: start_convo and Conversation if unbound, push, then think ->
\* Conversation.stream adds the placeholder row and Model.chat is entered
\* with convo.messages.  d: how far inow() moves between the two inserts.
HandleText(c, d) ==
    /\ pc[c] = "dispatch"
    /\ match_request(req[c]) = "text"
    /\ now + d <= MaxClock
    /\ LET cs2 == IF convo[c].id = 0 THEN start_convo(convos, SYSTEM) ELSE convos
           cv == IF convo[c].id = 0
                 THEN Conversation(cs2, chat, Len(cs2), "asc").convo
                 ELSE convo[c]
           p == push(chat, cv, now, "user", req[c].message)
           ch2 == add_message(p.chat, now + d, cv.id, "self", <<>>)
       IN  /\ convos' = cs2
           /\ IF req[c].is_str
              THEN /\ chat' = ch2
                   /\ now' = now + d
                   /\ convo' = [convo EXCEPT ![c] = p.convo]
                   /\ turn' = [turn EXCEPT ![c] =
                         [NoTurn EXCEPT !.msg = Len(ch2), !.history = p.convo.messages,
                                        !.state = "running"]]
                   /\ pc' = [pc EXCEPT ![c] = "gen"]
                   /\ out' = out
              ELSE \* add_message raises: the parameter cannot be bound
                   /\ d = 0
                   /\ chat' = chat
                   /\ now' = now
                   /\ convo' = [convo EXCEPT ![c] = cv]
                   /\ turn' = turn
                   /\ pc' = [pc EXCEPT ![c] = "closing"]
                   /\ out' = [out EXCEPT ![c] = on_client_except(@, "InterfaceError", lost[c])]
    /\ UNCHANGED <<lost, req, api, client>>

\* an exception leaves the turn: think and stream do not catch it, on_client does
TurnRaises(c, exc) ==
    /\ turn' = [turn EXCEPT ![c].state = "failed", ![c].exc = exc]
    /\ pc' = [pc EXCEPT ![c] = "closing"]
    /\ out' = [out EXCEPT ![c] = on_client_except(@, exc, lost[c])]
    /\ UNCHANGED <<convos, chat, now, lost, convo, req, api, client>>

\* `async for m in res` receives backend element m; Model.chat yields its
\* first output (the rest of a tool_calls list waits in queue)
BackendMessage(c, m) ==
    /\ pc[c] = "gen"
    /\ LET r == chat_outputs(m)
       IN  IF ~r.ok THEN TurnRaises(c, "NotImplementedError")
           ELSE IF r.outputs = <<>> THEN UNCHANGED vars
           ELSE /\ Len(turn[c].produced) + Len(r.outputs) <= MaxOutputs
                /\ LET s == stream_output([turn[c] EXCEPT !.queue = Tail(r.outputs),
                                                          !.asked = @ \o requested(m)],
                                          chat, Head(r.outputs))
                   IN  /\ turn' = [turn EXCEPT ![c] = s.turn]
                       /\ chat' = s.chat
                /\ pc' = [pc EXCEPT ![c] = "fwd"]
                /\ UNCHANGED <<convos, now, lost, convo, req, out, api, client>>

\* the backend call or its response stream raises
BackendFail(c) ==
    /\ pc[c] = "gen"
    /\ TurnRaises(c, "ResponseError")

\* the response stream ends: Conversation.stream finalizes, think returns
BackendEnd(c) ==
    /\ pc[c] = "gen"
    /\ convo' = [convo EXCEPT ![c] = stream_finish(@, turn[c])]
    /\ turn' = [turn EXCEPT ![c].state = "complete"]
    /\ pc' = [pc EXCEPT ![c] = "wdone"]
    /\ UNCHANGED <<convos, chat, now, lost, req, out, api, client>>

\* variant: the update is written ahead of the records written before it
Forward_prepend(c) ==
    /\ pc[c] = "fwd"
    /\ IF lost[c]
       THEN /\ pc' = [pc EXCEPT ![c] = "closing"]
            /\ turn' = [turn EXCEPT ![c].state = "aborted"]
            /\ out' = out
       ELSE /\ out' = [out EXCEPT ![c] = <<update_to_json(turn[c].pending)>> \o @]
            /\ pc' = [pc EXCEPT ![c] =
                  IF turn[c].pending.kind = "Chunk" THEN "gen" ELSE "tool"]
            /\ turn' = turn
    /\ UNCHANGED <<convos, chat, now, lost, convo, req, api, client>>

\* handle_client writes the update think yielded; think then sends None
\* into the stream (Chunk) or awaits use_tool (ToolCall)
Forward(c) ==
    /\ pc[c] = "fwd"
    /\ IF lost[c]
       THEN /\ pc' = [pc EXCEPT ![c] = "closing"]
            /\ turn' = [turn EXCEPT ![c].state = "aborted"]
            /\ out' = out
       ELSE /\ out' = [out EXCEPT ![c] = Append(@, update_to_json(turn[c].pending))]
            /\ pc' = [pc EXCEPT ![c] =
                  IF turn[c].pending.kind = "Chunk" THEN "gen" ELSE "tool"]
            /\ turn' = turn
    /\ UNCHANGED <<convos, chat, now, lost, convo, req, api, client>>

\* use_tool returns; think sends the result into Conversation.stream, which
\* records the annotation and the Outcome, and takes the next output
ToolDone(c) ==
    /\ pc[c] = "tool"
    /\ LET t == turn[c]
           call == t.pending
           ch2 == append_message_toolcall(chat, t.msg, call.name, call.args, TOOL_RESULT)
           t2 == [t EXCEPT !.calls = Append(@, Outcome(call.name, call.args, TOOL_RESULT))]
       IN  IF t.queue = <<>>
           THEN /\ chat' = ch2
                /\ turn' = [turn EXCEPT ![c] = t2]
                /\ pc' = [pc EXCEPT ![c] = "gen"]
           ELSE LET s == stream_output([t2 EXCEPT !.queue = Tail(@)], ch2, Head(t.queue))
                IN  /\ chat' = s.chat
                    /\ turn' = [turn EXCEPT ![c] = s.turn]
                    /\ pc' = [pc EXCEPT ![c] = "fwd"]
    /\ UNCHANGED <<convos, now, lost, convo, req, out, api, client>>

\* variant: the failed call is recorded with no result before the error leaves
ToolFail_recorded(c) ==
    /\ pc[c] = "tool"
    /\ LET t == turn[c]
           call == t.pending
       IN  /\ chat' = append_message_toolcall(chat, t.msg, call.name, call.args, None)
           /\ turn' = [turn EXCEPT ![c].state = "failed", ![c].exc = "TypeError",
                                   ![c].calls = Append(@, Outcome(call.name, call.args, None))]
    /\ pc' = [pc EXCEPT ![c] = "closing"]
    /\ out' = [out EXCEPT ![c] = on_client_except(@, "TypeError", lost[c])]
    /\ UNCHANGED <<convos, now, lost, convo, req, api, client>>

\* `await self.use_tool(name, *args)` raises (the executor, or the unpacking
\* of args that are not iterable): think does not catch it, the suspended
\* Conversation.stream is never resumed
ToolFail(c) ==
    /\ pc[c] = "tool"
    /\ TurnRaises(c, "TypeError")

\* variant: the loop over think is not followed by a write
WriteDone_skipped(c) ==
    /\ pc[c] = "wdone"
    /\ pc' = [pc EXCEPT ![c] = IF lost[c] THEN "closing" ELSE "read"]
    /\ turn' = [turn EXCEPT ![c] = NoTurn]
    /\ UNCHANGED <<convos, chat, now, lost, convo, req, out, api, client>>

\* after the loop over think: write {"type": "done"}
WriteDone(c) ==
    /\ pc[c] = "wdone"
    /\ IF lost[c]
       THEN pc' = [pc EXCEPT ![c] = "closing"] /\ out' = out
       ELSE /\ pc' = [pc EXCEPT ![c] = "read"]
            /\ out' = [out EXCEPT ![c] = Append(@, [type |-> "done"])]
    /\ turn' = [turn EXCEPT ![c] = NoTurn]
    /\ UNCHANGED <<convos, chat, now, lost, convo, req, api, client>>

\* JSONLStream.__aexit__ -> close(): the transport is closed and the locals
\* of the connection's task are gone
Close(c) ==
    /\ pc[c] = "closing"
    /\ pc' = [pc EXCEPT ![c] = "closed"]
    /\ lost' = [lost EXCEPT ![c] = TRUE]
    /\ convo' = [convo EXCEPT ![c] = NoConvo]
    /\ req' = [req EXCEPT ![c] = NoRequest]
    /\ out' = [out EXCEPT ![c] = <<>>]
    /\ turn' = [turn EXCEPT ![c] = NoTurn]
    /\ UNCHANGED <<convos, chat, now, api, client>>

\* asyncio.start_unix_server calls on_client for a new connection (the
\* model reuses the name of a connection that is closed)
Accept(c) ==
    /\ pc[c] = "closed"
    /\ pc' = [pc EXCEPT ![c] = "read"]
    /\ lost' = [lost EXCEPT ![c] = FALSE]
    /\ UNCHANGED <<convos, chat, now, convo, req, out, turn, api, client>>

\* a text request fits the bounds of the store
Room(c, data, maxRows) ==
    match_request(data) = "text" /\ data.json_ok =>
        /\ Len(chat) + 2 <= maxRows
        /\ convo[c].id = 0 => Len(convos) < MaxConvos

\* One connection, every request and every backend element.  inow() moves
\* inside HandleText here.
Next ==
    \/ PeerLost("c1")
    \/ ReadEof("c1")
    \/ \E data \in Requests \cup ClientRequests :
          Room("c1", data, MaxRows) /\ Read("c1", data)
    \/ HandleClose("c1")
    \/ HandleOther("c1")
    \/ \E tie \in TieOrders : HandleConnect("c1", tie)
    \/ \E d \in 0..1 : HandleText("c1", d)
    \/ \E m \in BackendMsgs : BackendMessage("c1", m)
    \/ BackendFail("c1")
    \/ BackendEnd("c1")
    \/ Forward("c1")
    \/ ToolDone("c1")
    \/ ToolFail("c1")
    \/ WriteDone("c1")
    \/ Close("c1")

Spec == Init /\ [][Next]_vars

\* Two connections on one store; a third comes, in place of the first, while
\* the store holds no message yet
SharedRequests ==
    {Request(TRUE, "connect", TRUE, cid, FALSE, FALSE, <<>>) : cid \in 0..MaxConvos}
    \cup {Request(TRUE, "text", FALSE, 0, TRUE, TRUE, <<"h">>),
          Request(TRUE, "text", FALSE, 0, TRUE, FALSE, <<>>)}

SharedMsgs == {BackendMsg(TRUE, TRUE, <<"a">>, FALSE, <<>>)}

NextShared ==
    \E c \in Conns :
        \/ \E data \in SharedRequests : Room(c, data, SharedRows) /\ Read(c, data)
        \/ \E tie \in TieOrders : HandleConnect(c, tie)
        \/ HandleText(c, 0)
        \/ \E m \in SharedMsgs : BackendMessage(c, m)
        \/ BackendEnd(c)
        \/ Forward(c)
        \/ WriteDone(c)
        \/ Close(c)
        \/ c = "c1" /\ chat = <<>> /\ Accept(c)

SpecShared == Init /\ [][NextShared]_vars

\* One connection, many turns
WindowRequests == {Request(TRUE, "text", FALSE, 0, TRUE, TRUE, <<"h">>)}

\* the backend streams empty content only
WindowMsgs == {BackendMsg(TRUE, TRUE, <<>>, FALSE, <<>>)}

NextWindow ==
    \/ \E data \in WindowRequests : Room("c1", data, WindowRows) /\ Read("c1", data)
    \/ HandleText("c1", 0)
    \/ \E m \in WindowMsgs : BackendMessage("c1", m)
    \/ BackendEnd("c1")
    \/ Forward("c1")
    \/ WriteDone("c1")

SpecWindow == Init /\ [][NextWindow]_vars

----------------------------------------------------------------------------
(* The Conversation interface called directly: start_convo + Conversation,
   Conversation(db, id), Conversation.push.  The store starts with one
   conversation of BacklogRows user rows written within one second. *)

Roles == {"user", "self", "tool"}

InitConvo ==
    /\ convos = <<SYSTEM>>
    /\ chat = [k \in 1..BacklogRows |-> ChatRow(0, 1, "user", <<"a">>)]
    /\ now = 0
    /\ pc = [c \in Conns |-> "read"]
    /\ lost = [c \in Conns |-> FALSE]
    /\ convo = [c \in Conns |-> NoConvo]
    /\ req = [c \in Conns |-> NoRequest]
    /\ out = [c \in Conns |-> <<>>]
    /\ turn = [c \in Conns |-> NoTurn]
    /\ api = [c \in Conns |-> NoCall]
    /\ client = NoClient

\* cid = db.start_convo(system); convo = Conversation(db, cid)
ApiStart(h, system) ==
    /\ Len(convos) < MaxConvos
    /\ LET cs2 == start_convo(convos, system)
           r == Conversation(cs2, chat, Len(cs2), "asc")
       IN  /\ convos' = cs2
           /\ convo' = [convo EXCEPT ![h] = r.convo]
           /\ api' = [api EXCEPT ![h] =
                 ApiCall("start", r.ok, Len(cs2), 0, <<>>, Len(chat), 0)]
    /\ UNCHANGED <<chat, now, pc, lost, req, out, turn, client>>

\* convo = Conversation(db, id)
ApiLoad(h, id, tie) ==
    /\ LET r == Conversation(convos, chat, id, tie)
       IN  /\ convo' = [convo EXCEPT ![h] = IF r.ok THEN r.convo ELSE @]
           /\ api' = [api EXCEPT ![h] =
                 ApiCall("load", r.ok, id, Len(RowsOf(chat, id)),
                         list_chat(chat, id, MSG_LIMIT, tie), Len(chat),
                         Len(convo[h].messages))]
    /\ UNCHANGED <<convos, chat, now, pc, lost, req, out, turn, client>>

\* convo.push(role, content)
ApiPush(h, role, content) ==
    /\ convo[h].id # 0
    /\ Len(chat) < ApiRows
    /\ LET p == push(chat, convo[h], now, role, content)
       IN  /\ chat' = p.chat
           /\ convo' = [convo EXCEPT ![h] = p.convo]
           /\ api' = [api EXCEPT ![h] =
                 ApiCall("push", p.ok, convo[h].id, Len(RowsOf(chat, convo[h].id)),
                         <<>>, Len(chat), Len(convo[h].messages))]
    /\ UNCHANGED <<convos, now, pc, lost, req, out, turn, client>>

NextConvo ==
    \/ Tick
    \/ \E system \in Systems : ApiStart("c1", system)
    \/ \E id \in 0..MaxConvos, tie \in TieOrders : ApiLoad("c1", id, tie)
    \/ \E role \in Roles, content \in UserTexts : ApiPush("c1", role, content)

SpecConvo == InitConvo /\ [][NextConvo]_vars

----------------------------------------------------------------------------
(* The client's connection handling: EzraClient.start with its two tasks *)

MaxSent == 2    \* records the client's input task writes

\* lines typed at the prompt: a close command, text, and "/" alone, for
\* which `cmd, *args = data[1:].split()` raises ValueError
PromptLines == {"close", "text", "bad"}

\* what stream.read gives the output task: a record it prints, a record
\* {"type": "close"}, end of input, a line that is not JSON
PeerLines == {"record", "close", "eof", "junk"}

ServerUnchanged == UNCHANGED <<convos, chat, now, pc, lost, convo, req, out, turn, api>>

\* the user enters a line: prompt_async's future completes
UserLine ==
    /\ client.input = "prompt"
    /\ ~InReady(client, "input")
    /\ client.sent < MaxSent
    /\ client' = schedule(client, "input")
    /\ ServerUnchanged

\* bytes arrive from the peer, or its end of the socket is closed
PeerData ==
    /\ client.output = "read"
    /\ ~InReady(client, "output")
    /\ client.transport = "open"
    /\ client' = schedule(client, "output")
    /\ ServerUnchanged

\* the transport's buffer has emptied: a suspended drain() goes on
Drained(t) ==
    /\ \/ t = "input" /\ client.input = "write"
       \/ t = "main" /\ client.main = "drain"
    /\ ~InReady(client, t)
    /\ client' = schedule(client, t)
    /\ ServerUnchanged

\* the cleanup prompt_async does on cancellation gets to its end
Unwound ==
    /\ client.input = "unwind"
    /\ ~InReady(client, "input")
    /\ client' = schedule(client, "input")
    /\ ServerUnchanged

\* one step of EzraClient.input.  line: what prompt_async returned;
\* suspends: the await it reaches (drain, or the prompt's cleanup when
\* cancelled) does not complete at once
RunInput(line, suspends) ==
    /\ client.ready # <<>> /\ Head(client.ready) = "input"
    /\ LET cl == [client EXCEPT !.ready = Tail(@), !.cancel = @ \ {"input"}]
       IN  client' =
             IF "input" \in client.cancel \/ client.input = "unwind"
             THEN IF client.input = "prompt" /\ suspends
                  THEN [cl EXCEPT !.input = "unwind"]
                  ELSE task_done([cl EXCEPT !.input = "cancelled"], "input")
             ELSE IF client.input = "write"
             THEN IF client.after = "returned"
                  THEN task_done([cl EXCEPT !.input = "returned"], "input")
                  ELSE [cl EXCEPT !.input = "prompt"]
             ELSE IF line = "bad"
             THEN task_done([cl EXCEPT !.input = "raised"], "input")
             ELSE LET w == [cl EXCEPT !.sent = @ + 1,
                                      !.after = IF line = "close" THEN "returned" ELSE "prompt"]
                  IN  IF suspends THEN [w EXCEPT !.input = "write"]
                      ELSE IF line = "close"
                      THEN task_done([w EXCEPT !.input = "returned"], "input")
                      ELSE w
    /\ ServerUnchanged

\* one step of EzraClient.output.  data: what stream.read gives
RunOutput(data) ==
    /\ client.ready # <<>> /\ Head(client.ready) = "output"
    /\ LET cl == [client EXCEPT !.ready = Tail(@), !.cancel = @ \ {"output"}]
       IN  client' =
             IF "output" \in client.cancel
             THEN task_done([cl EXCEPT !.output = "cancelled"], "output")
             ELSE IF data = "record" THEN cl
             ELSE IF data = "junk"
             THEN task_done([cl EXCEPT !.output = "raised"], "output")
             ELSE task_done([cl EXCEPT !.output = "returned"], "output")
    /\ ServerUnchanged

\* one step of EzraClient.start.  A CancelledError at asyncio.wait skips
\* the cancel loop and the gather and leaves through JSONLStream.__aexit__.
RunMain(suspends) ==
    /\ client.ready # <<>> /\ Head(client.ready) = "main"
    /\ LET cl == [client EXCEPT !.ready = Tail(@), !.cancel = @ \ {"main"}]
       IN  client' =
             IF client.main = "wait"
             THEN IF "main" \in client.cancel THEN exit_stream(cl, suspends)
                  ELSE LET c2 == cancel_task(cancel_task(cl, "input"), "output")
                       IN  IF Finished(cl.input) /\ Finished(cl.output)
                           THEN exit_stream(c2, suspends)
                           ELSE [c2 EXCEPT !.main = "gather"]
             ELSE IF client.main = "gather" THEN exit_stream(cl, suspends)
             ELSE IF client.main = "drain" THEN close_transport(cl)
             ELSE [cl EXCEPT !.main = "done"]
    /\ ServerUnchanged

NextClient ==
    \/ UserLine
    \/ PeerData
    \/ \E t \in {"input", "main"} : Drained(t)
    \/ Unwound
    \/ \E line \in PromptLines, suspends \in BOOLEAN : RunInput(line, suspends)
    \/ \E data \in PeerLines : RunOutput(data)
    \/ \E suspends \in BOOLEAN : RunMain(suspends)

SpecClient == Init /\ [][NextClient]_vars

----------------------------------------------------------------------------
(* Properties *)

\* texts of the Chunk outputs among `outputs`, in order
ChunkTextsOf(outputs) ==
    LET cs == SelectSeq(outputs, LAMBDA o : o.kind = "Chunk")
    IN  [k \in 1..Len(cs) |-> cs[k].text]

Count(s, type) == Cardinality({k \in 1..Len(s) : s[k].type = type})

\* the (name, args, result) the annotations of a row spell, in order
Annotations(row) ==
    [k \in 1..Len(row.tool_calls) |->
        LET a == row.tool_calls[k].string IN Outcome(a.name, a.args, a.result)]

\* the ToolCall outputs among `outputs`, in order
ToolCallsOf(outputs) == SelectSeq(outputs, LAMBDA o : o.kind = "ToolCall")

IsPrefix(s, t) == Len(s) <= Len(t) /\ \A k \in 1..Len(s) : s[k] = t[k]

\* C1: when a turn has run to completion, the content of its row is the
\* concatenation, in order, of the texts of the chunks the gateway yielded in
\* the turn, and so is the content of the SelfMessage appended to messages.
C1_ContentIsConcatenation ==
    \A c \in Conns :
        turn[c].state = "complete" =>
            /\ chat[turn[c].msg].content = Join(ChunkTextsOf(turn[c].produced))
            /\ convo[c].messages # <<>>
            /\ Last(convo[c].messages).role = "self"
            /\ Last(convo[c].messages).content = chat[turn[c].msg].content

C1_Witness ==
    \E c \in Conns :
        /\ turn[c].state = "complete"
        /\ LET ts == ChunkTextsOf(turn[c].produced)
           IN  Len(ts) >= 2 /\ ts[1] # ts[2]

\* C2: when a turn has run to completion, the updates Server.think yielded
\* hold one Result per ToolCall, each right after its ToolCall.
C2_ResultAfterEachToolCall ==
    \A c \in Conns :
        turn[c].state = "complete" =>
            LET u == turn[c].updates
            IN  /\ Cardinality({k \in 1..Len(u) : u[k].kind = "Result"})
                     = Cardinality({k \in 1..Len(u) : u[k].kind = "ToolCall"})
                /\ \A k \in 1..Len(u) :
                     u[k].kind = "ToolCall" => k < Len(u) /\ u[k + 1].kind = "Result"

\* C3: when the gateway has raised in a turn, the turn's row is still stored,
\* its content is the concatenation of the chunks yielded before the failure,
\* and a connection whose peer is still there has been sent `uncaught` last.
C3_FailedTurnKeepsChunks ==
    \A c \in Conns :
        turn[c].state = "failed" =>
            /\ turn[c].msg \in DOMAIN chat
            /\ chat[turn[c].msg].role = "self"
            /\ chat[turn[c].msg].convo_id = convo[c].id
            /\ chat[turn[c].msg].content = Join(ChunkTextsOf(turn[c].produced))
            /\ ~lost[c] => out[c] # <<>> /\ Last(out[c]) = Uncaught

C3_Witness ==
    \E c \in Conns :
        /\ turn[c].state = "failed"
        /\ ~lost[c]
        /\ Len(ChunkTextsOf(turn[c].produced)) = 2
        /\ Last(out[c]) = Uncaught

\* C4: handling a connect request whose id is not in table convos, on a
\* connection whose peer is still there, writes the one record
\* error "Unknown conversation", leaves the bound conversation and both
\* tables as they were, and goes back to reading requests.
C4_UnknownConnect ==
    [][\A c \in Conns :
          (/\ pc[c] = "dispatch"
           /\ pc'[c] # "dispatch"
           /\ match_request(req[c]) = "connect"
           /\ req[c].convo \notin DOMAIN convos
           /\ ~lost[c])
          => /\ out'[c] = <<Error("Unknown conversation")>>
             /\ convo'[c] = convo[c]
             /\ chat' = chat
             /\ convos' = convos
             /\ pc'[c] = "read"]_vars

C4_Witness ==
    \E c \in Conns :
        /\ pc[c] = "read"
        /\ match_request(req[c]) = "connect"
        /\ req[c].convo \notin DOMAIN convos
        /\ out[c] = <<Error("Unknown conversation")>>
        /\ convo[c].id # 0
        /\ convo[c].messages # <<>>

\* C6: the records written for one request hold at most one `done`, and it is
\* the last of them; a text request whose handling is over with the peer
\* still there has got its `done`; no other request and no failed turn has.
C6_OneDoneLast ==
    \A c \in Conns :
        LET o == out[c]
        IN  /\ Count(o, "done") <= 1
            /\ Count(o, "done") = 1 => Last(o).type = "done"
            /\ (pc[c] = "read" /\ req[c].json_ok /\ match_request(req[c]) = "text")
                   => Count(o, "done") = 1
            /\ (turn[c].state = "complete" /\ pc[c] # "wdone") => lost[c]
            /\ (~req[c].json_ok \/ match_request(req[c]) # "text") => Count(o, "done") = 0
            /\ turn[c].state \in {"failed", "aborted", "running"} => Count(o, "done") = 0

C6_Witness ==
    \E c \in Conns :
        /\ pc[c] = "read"
        /\ match_request(req[c]) = "text"
        /\ Len(out[c]) = 3
        /\ out[c][1].type = "chunk"
        /\ out[c][2].type = "tool"
        /\ out[c][3].type = "done"

\* C10: a line that is not JSON, and a record that no arm of the match
\* statement takes, is answered with one `error` record, leaves the bound
\* conversation and both tables as they were, and the handler reads on.
C10_MalformedAnswered ==
    [][\A c \in Conns :
          (/\ ~lost[c]
           /\ \/ pc[c] = "read" /\ pc'[c] # "read" /\ ~req'[c].json_ok
              \/ /\ pc[c] = "dispatch"
                 /\ pc'[c] # "dispatch"
                 /\ match_request(req[c]) = "other")
          => /\ Len(out'[c]) = 1
             /\ out'[c][1].type = "error"
             /\ convo'[c] = convo[c]
             /\ chat' = chat
             /\ convos' = convos
             /\ pc'[c] = "read"]_vars

\* C5: a connect request for a conversation that holds one finished turn (a
\* user row, then the turn's row) is answered with a `replay` record whose
\* messages are the user message and then the assistant's reply as streamed.
C5_ReplayAfterTurn ==
    [][\A c \in Conns :
          LET cid == req[c].convo
              ids == RowsOf(chat, cid)
          IN  (/\ pc[c] = "dispatch"
               /\ pc'[c] # "dispatch"
               /\ match_request(req[c]) = "connect"
               /\ cid \in DOMAIN convos
               /\ Len(ids) = 2
               /\ \A k \in Conns : turn[k].state = "running" => chat[turn[k].msg].convo_id # cid
               /\ ~lost[c])
              => out'[c] = <<[type |-> "replay", system |-> convos[cid],
                              messages |-> <<[role |-> "user", content |-> chat[ids[1]].content],
                                             [role |-> "assistant",
                                              content |-> chat[ids[2]].content]>>]>>]_vars

\* C7: loading a conversation of more than MSG_LIMIT rows succeeds and
\* hydrates MSG_LIMIT messages, from the MSG_LIMIT rows created last, in the
\* order of their creation.
C7_LoadsLatestWindow ==
    \A h \in Conns :
        (api[h].op = "load" /\ api[h].seen > MSG_LIMIT) =>
            /\ api[h].ok
            /\ Len(convo[h].messages) = MSG_LIMIT
            /\ api[h].rows = SubSeq(RowsOf(chat, api[h].id),
                                    api[h].seen - MSG_LIMIT + 1, api[h].seen)

\* C8: loading a conversation that holds one row, a user row of content a,
\* gives a Conversation with the system prompt it was started with and
\* UserMessage(a) as its first message.
C8_ReloadRoundTrip ==
    \A h \in Conns :
        LET ids == RowsOf(chat, api[h].id)
        IN  (/\ api[h].op = "load"
             /\ api[h].id \in DOMAIN convos
             /\ api[h].seen = 1
             /\ chat[ids[1]].role = "user")
            => /\ api[h].ok
               /\ convo[h].system = convos[api[h].id]
               /\ convo[h].messages # <<>>
               /\ convo[h].messages[1] = UserMessage(chat[ids[1]].content)

\* C9: the messages Model.chat is entered with are never more than MSG_LIMIT.
C9_HistoryBounded ==
    \A c \in Conns : Len(turn[c].history) <= MSG_LIMIT

\* C11: when the await on the tool executor raises, the error leaves the turn
\* (the connection is torn down, with `uncaught` written last if the peer is
\* still there), both tables stay as they were, no Outcome is added to the
\* pending list, and the row's annotations are those of the calls before it.
C11_ToolFailureRecordsNothing ==
    [][\A c \in Conns :
          (pc[c] = "tool" /\ turn'[c].state = "failed")
          => /\ pc'[c] = "closing"
             /\ turn'[c].exc = "TypeError"
             /\ chat' = chat
             /\ convos' = convos
             /\ convo' = convo
             /\ turn'[c].calls = turn[c].calls
             /\ turn'[c].content = turn[c].content
             /\ Annotations(chat'[turn[c].msg]) = turn[c].calls
             /\ ~lost[c] => Last(out'[c]) = Uncaught]_vars

C11_Witness ==
    \E c \in Conns :
        /\ turn[c].state = "failed"
        /\ turn[c].exc = "TypeError"
        /\ turn[c].pending = ToolCall("t2", "{}")
        /\ turn[c].calls = <<Outcome("t1", "{}", TOOL_RESULT)>>
        /\ Annotations(chat[turn[c].msg]) = turn[c].calls
        /\ Last(out[c]) = Uncaught

\* the `chunk` and `tool` records among the records s
Forwarded(s) == SelectSeq(s, LAMBDA r : r.type \in {"chunk", "tool"})

\* C12: in every state of a turn the `chunk` and `tool` records written are,
\* in order, the outputs Conversation.stream has received from the gateway,
\* one record each; only the output received last may still be unwritten
\* (it is being written, or the write found the peer gone).
C12_ForwardedInOrder ==
    \A c \in Conns :
        turn[c].state # "none" =>
            LET p == turn[c].produced
                w == Forwarded(out[c])
                n == IF pc[c] = "fwd" \/ turn[c].state = "aborted"
                     THEN Len(p) - 1 ELSE Len(p)
            IN  /\ Len(w) = n
                /\ \A k \in 1..n : w[k] = update_to_json(p[k])

C12_Witness ==
    \E c \in Conns :
        /\ turn[c].state = "running"
        /\ pc[c] = "gen"
        /\ Len(turn[c].produced) = 2
        /\ turn[c].produced[1].kind = "ToolCall"
        /\ turn[c].produced[2].kind = "Chunk"
        /\ Len(out[c]) = 2
        /\ out[c][1].type = "tool"
        /\ out[c][2].type = "chunk"

\* the annotations of the turn's row against the calls of the turn: they are
\* the calls answered so far, and a call not yet answered is the output
\* received last
AnnotationsMatch(c) ==
    LET t == turn[c]
        row == chat[t.msg]
        tcs == ToolCallsOf(t.produced)
        n == Len(t.calls)
    IN  /\ Annotations(row) = t.calls
        /\ row.tc_null = (n = 0)
        /\ n <= Len(tcs)
        /\ \A k \in 1..n : t.calls[k] = Outcome(tcs[k].name, tcs[k].args, TOOL_RESULT)
        /\ n < Len(tcs) =>
              /\ n = Len(tcs) - 1
              /\ Last(t.produced).kind = "ToolCall"
              /\ pc[c] \in {"fwd", "tool", "closing"}
        /\ t.state = "complete" =>
              /\ n = Len(tcs)
              /\ Last(convo[c].messages).tool_calls = Annotations(row)

\* C13: in every state of a turn the annotations of the turn's row are, in
\* order, the (name, args, result) of the ToolCalls answered so far; a
\* ToolCall not yet answered is the output received last; no step replaces
\* or removes an annotation of any row; when the turn is finalized the
\* SelfMessage's tool_calls are the row's annotations.
C13_AnnotationsAppendOnly ==
    [][/\ \A c \in Conns : turn'[c].state # "none" => AnnotationsMatch(c)'
       /\ \A i \in DOMAIN chat : IsPrefix(chat[i].tool_calls, chat'[i].tool_calls)]_vars

C13_Witness ==
    \E c \in Conns :
        /\ turn[c].state = "complete"
        /\ Len(chat[turn[c].msg].tool_calls) = 2
        /\ Annotations(chat[turn[c].msg])
             = <<Outcome("t1", "{}", TOOL_RESULT), Outcome("t2", "{}", TOOL_RESULT)>>
        /\ Last(convo[c].messages).tool_calls = Annotations(chat[turn[c].msg])

\* C14: handling a text request whose message is a string: an unbound
\* connection gets one new conversation with the default system prompt and is
\* bound to it, a bound connection keeps its conversation and none is
\* created; the user row is stored ahead of the turn's row, the user message
\* is appended in memory, and the history the gateway is entered with ends
\* with that user message.
C14_TextBindsAndPushes ==
    [][\A c \in Conns :
          (/\ pc[c] = "dispatch"
           /\ pc'[c] # "dispatch"
           /\ match_request(req[c]) = "text"
           /\ req[c].is_str)
          => /\ IF convo[c].id = 0
                THEN /\ convos' = Append(convos, SYSTEM)
                     /\ convo'[c].id = Len(convos')
                     /\ convo'[c].system = SYSTEM
                     /\ convo'[c].messages = <<UserMessage(req[c].message)>>
                ELSE /\ convos' = convos
                     /\ convo'[c].id = convo[c].id
                     /\ convo'[c].system = convo[c].system
                     /\ convo'[c].messages = Append(convo[c].messages,
                                                    UserMessage(req[c].message))
             /\ Len(chat') = Len(chat) + 2
             /\ SubSeq(chat', 1, Len(chat)) = chat
             /\ turn'[c].state = "running"
             /\ turn'[c].msg = Len(chat) + 2
             /\ chat'[Len(chat) + 1].role = "user"
             /\ chat'[Len(chat) + 1].content = req[c].message
             /\ chat'[Len(chat) + 1].convo_id = convo'[c].id
             /\ chat'[Len(chat) + 2].convo_id = convo'[c].id
             /\ turn'[c].history = convo'[c].messages
             /\ Last(turn'[c].history) = UserMessage(req[c].message)]_vars

C14_Witness ==
    \E c \in Conns :
        /\ pc[c] = "gen"
        /\ turn[c].produced = <<>>
        /\ Len(convos) = 1
        /\ convo[c].id = 1
        /\ Len(RowsOf(chat, 1)) = 4
        /\ Len(turn[c].history) = 3
        /\ turn[c].history[1] = UserMessage(<<>>)
        /\ turn[c].history[3] = UserMessage(<<"h">>)

\* C15: handle_client is left by the end of input (peer gone), by a close
\* request, or by an exception.  A step that leaves it with the peer still
\* there and not for a close request writes one `uncaught` record, the only
\* one and the last of the records written (out holds those written for the
\* request at hand); a step that leaves it for a
\* close request or with the peer gone writes nothing.  After that the
\* connection only gets closed: nothing is written, no request is read and
\* the tables stay as they are.
C15_UncaughtOnceThenClosed ==
    [][\A c \in Conns :
          /\ (pc[c] \notin {"closing", "closed"} /\ pc'[c] = "closing") =>
                IF pc[c] = "dispatch" /\ match_request(req[c]) = "close"
                THEN out'[c] = <<>>
                ELSE IF lost[c]
                THEN out'[c] = out[c] /\ Count(out'[c], "uncaught") = 0
                ELSE /\ out'[c] = Append(IF pc[c] = "read" THEN <<>> ELSE out[c], Uncaught)
                     /\ Count(out'[c], "uncaught") = 1
          /\ pc[c] = "closing" =>
                /\ pc'[c] \in {"closing", "closed"}
                /\ out'[c] \in {out[c], <<>>}
                /\ chat' = chat /\ convos' = convos
          /\ pc[c] = "closed" =>
                /\ pc'[c] = "closed"
                /\ out'[c] = <<>> /\ req'[c] = NoRequest
                /\ chat' = chat /\ convos' = convos
          /\ Count(out'[c], "uncaught") > 0 => pc'[c] = "closing"]_vars

C15_Witness ==
    \E c \in Conns :
        /\ pc[c] = "closing"
        /\ ~lost[c]
        /\ match_request(req[c]) = "connect"
        /\ get_convo(convos, req[c].convo) # 0
        /\ out[c] = <<Uncaught>>

\* C16: loading an existing conversation whose loaded rows are user and self
\* rows succeeds, and the message of each self row carries the row's
\* annotations as its tool_calls: same length and order, same name and args,
\* result None; a self row with no annotation gives an empty tool_calls.
C16_ReloadToolCalls ==
    \A h \in Conns :
        (/\ api[h].op = "load"
         /\ api[h].id \in DOMAIN convos
         /\ \A k \in 1..Len(api[h].rows) : chat[api[h].rows[k]].role \in {"user", "self"})
        => /\ api[h].ok
           /\ Len(convo[h].messages) = Len(api[h].rows)
           /\ \A k \in 1..Len(api[h].rows) :
                 LET row == chat[api[h].rows[k]]
                     a == Annotations(row)
                 IN  row.role = "self" =>
                        convo[h].messages[k].tool_calls
                          = [j \in 1..Len(a) |-> Outcome(a[j].name, a[j].args, None)]

\* C17: a record the bundled client sends is taken by the close, connect or
\* text arm of the server's match statement, and is not answered with
\* error "Unknown request type".
C17_ClientShapesRecognised ==
    \A c \in Conns :
        req[c] \in ClientRequests =>
            /\ pc[c] = "dispatch" => match_request(req[c]) \in {"close", "connect", "text"}
            /\ \A k \in 1..Len(out[c]) : out[c][k] # Error("Unknown request type")

\* C18: the transport is not closed while the input task or the output task
\* is still running: by the time of writer.close() both have returned,
\* raised, or ended cancelled.
C18_ClosedAfterBothTasks ==
    client.transport = "closed" => Finished(client.input) /\ Finished(client.output)

Min(a, b) == IF a <= b THEN a ELSE b

\* the messages m are, by role and content, the last Len(m) rows of
\* conversation cid, and not fewer than the store holds (up to MSG_LIMIT)
MatchesStore(m, cid) ==
    LET ids == RowsOf(chat, cid)
        n == Len(ids)
    IN  /\ Min(n, MSG_LIMIT) <= Len(m)
        /\ Len(m) <= n
        /\ \A k \in 1..Len(m) :
              /\ m[k].role = chat[ids[n - Len(m) + k]].role
              /\ m[k].content = chat[ids[n - Len(m) + k]].content

\* C19: when two connections are bound to the same conversation and neither
\* has a request being handled, the messages each holds in memory are the
\* most recent rows of that conversation.
C19_MemoryMatchesStore ==
    \A c, k \in Conns :
        (/\ c # k
         /\ convo[c].id # 0
         /\ convo[k].id = convo[c].id
         /\ pc[c] = "read"
         /\ pc[k] = "read")
        => MatchesStore(convo[c].messages, convo[c].id)

\* the contents of the `chunk` records among the records s, in order
WrittenChunks(s) ==
    LET cs == SelectSeq(s, LAMBDA r : r.type = "chunk")
    IN  [k \in 1..Len(cs) |-> cs[k].content]

\* C20: in every state of a turn, also one that a backend error, a tool
\* error or a lost peer has ended, the concatenation of the `chunk` contents
\* written to the client is a prefix of the content of the turn's row.
C20_PersistBeforeForward ==
    \A c \in Conns :
        turn[c].state # "none" =>
            IsPrefix(Join(WrittenChunks(out[c])), chat[turn[c].msg].content)

C20_Witness ==
    \E c \in Conns :
        /\ turn[c].state = "aborted"
        /\ Join(WrittenChunks(out[c])) = <<"a">>
        /\ chat[turn[c].msg].content = <<"a", "b">>

\* C21: the step that starts a turn adds, after the user row, exactly one
\* row for the turn: role self, empty content, no annotation; at that point
\* no output has been received from the gateway and no update written.  No
\* later step of the turn adds a row, and the row is there in every state of
\* the turn, also when the gateway ends or raises before its first output.
C21_OnePlaceholderRow ==
    [][\A c \in Conns :
          /\ (turn[c].state = "none" /\ turn'[c].state # "none") =>
                /\ Len(chat') = Len(chat) + 2
                /\ chat'[Len(chat) + 1].role = "user"
                /\ turn'[c].msg = Len(chat')
                /\ chat'[turn'[c].msg] = ChatRow(now', convo'[c].id, "self", <<>>)
                /\ turn'[c].produced = <<>>
                /\ turn'[c].updates = <<>>
                /\ out'[c] = <<>>
          /\ turn[c].state # "none" =>
                /\ Len(chat') = Len(chat)
                /\ turn[c].msg \in DOMAIN chat
                /\ chat'[turn[c].msg].role = "self"
                /\ turn'[c].state # "none" => turn'[c].msg = turn[c].msg]_vars

C21_Witness ==
    \E c \in Conns :
        /\ turn[c].state = "failed"
        /\ turn[c].exc = "NotImplementedError"
        /\ turn[c].produced = <<>>
        /\ chat[turn[c].msg] = ChatRow(chat[turn[c].msg].created_at, convo[c].id, "self", <<>>)
        /\ chat[turn[c].msg - 1].role = "user"

\* C22: the ToolCall outputs the gateway yields in a turn (those received
\* and those of the element at hand still to come) are, in order, the tool
\* calls the backend's elements carried, content or no content alongside.
C22_NoToolCallDropped ==
    \A c \in Conns :
        turn[c].state # "none" =>
            ToolCallsOf(turn[c].produced) \o turn[c].queue
              = [k \in 1..Len(turn[c].asked) |->
                    ToolCall(turn[c].asked[k].name, turn[c].asked[k].args)]

\* C23: the store holds no row of a role other than user and self, and a
\* push that failed (its role is neither) has left table chat and the
\* messages in memory as they were before the call.
C23_RejectedPushLeavesNothing ==
    /\ \A i \in DOMAIN chat : chat[i].role \in {"user", "self"}
    /\ \A h \in Conns :
          (api[h].op = "push" /\ ~api[h].ok) =>
              /\ Len(chat) = api[h].nrows
              /\ Len(convo[h].messages) = api[h].nmsgs

====
